---- MODULE Spec2Model ----
(***************************************************************************)
(* Model of minipilot's RedisRetrievalChain (src/core/RedisRetrievalChain  *)
(* .py): one chain instance of one session.  ask() starts a producer       *)
(* thread running __ask_question; streamer() returns a consumer generator. *)
(* Shared state: the hand-off queue of the instance, the Redis list that   *)
(* holds the session history and the semantic cache.                       *)
(* The ingestion worker (src/plugins/csv/worker.py) is modelled next to it: *)
(* runs of csv_loader_task, the clock they read and the documents they     *)
(* write to Redis.                                                         *)
(* ask(), streamer() and reset_history() are the public interface: the     *)
(* caller may call them at any time, so several producer threads can put   *)
(* on the same queue and write the same history, and several generators    *)
(* can pull from the queue.  What the environment does in one behaviour is *)
(* bounded by the budget set in the initial state.                         *)
(*                                                                         *)
(* Text values (questions, fragments, answers) are sequences of symbols,   *)
(* so that Python's string concatenation is sequence concatenation.        *)
(***************************************************************************)
EXTENDS Naturals, Sequences, FiniteSets

(* ------------------------------ bounds --------------------------------- *)
MaxAsks == 2            \* calls of ask()
MaxStreams == 2         \* calls of streamer()
MaxResets == 1          \* calls of reset_history()
MaxTokens == 2          \* fragments streamed by the LLM, over all questions
MaxEvents == 3          \* calls and fragments together
MaxSessionEvents == 4   \* the same in a session on one configuration
MaxThreads == 2         \* producer threads alive at the same time
MaxRuns == 2            \* runs of csv_loader_task
MaxClock == 3           \* clock readings, in ticks

Threads == 1..MaxThreads
\* the generators returned by the calls of streamer(), in the order of the calls
Gens == 1..MaxStreams

(* ------------------------------ texts ---------------------------------- *)
STOP_ITEM == <<"[STOP_ITEM]">>
TooLongNotice == <<"This conversation is too long, started a new one">>
OverloadMessage == <<"The server is overloaded, retry later. Thanks for your patience">>

Questions == {<<"q1">>, <<"q2">>}
\* what the question-condensing LLM may return as the standalone question
GeneratedQuestions == {<<"q1b">>, <<"q2">>}
\* the n-th fragment the streaming LLM emits
TokenStream == <<"a", "b", "c", "d">>
Token(n) == <<TokenStream[((n - 1) % Len(TokenStream)) + 1]>>

NoText == <<>>

(* -------------------------- source documents --------------------------- *)
\* A source document is given by its metadata; a Python value of a metadata
\* field is a string, Str(s), or None.  id stands for "<prefix>idx:<key>".
\* Of the six movie fields read at lines 163-168 only names is kept: the
\* other five are read the same way and are there or missing with it.
Str(s) == <<"str", s>>
None == <<"None">>
MovieDocument == [id |-> <<"minipilot_rag_", "k1">>, names |-> Str(<<"T">>)]
\* a document stored without metadata, as src/plugins/csv/worker.py does
\* (metadatas=None, line 67): the store returns its id only
BareDocument == [id |-> <<"minipilot_rag_", "k1">>]
\* a document whose stored hash lacks the field: the store returns None for it
NoNamesDocument == [id |-> <<"minipilot_rag_", "k1">>, names |-> None]
\* what the retriever may return
SourceDocuments == {<<>>, <<MovieDocument>>, <<BareDocument>>, <<NoNamesDocument>>}

(* ------------------------- session history ----------------------------- *)
\* RedisChatMessageHistory.add_message LPUSHes: index 1 is the newest entry,
\* the tail holds the oldest.
HumanMessage(text) == [type |-> "human", content |-> text, additional_kwargs |-> {}]
AIMessage(text, kw) == [type |-> "ai", content |-> text, additional_kwargs |-> kw]

OldText(tag, i) == <<tag>> \o [j \in 1..i |-> "o"]
\* the store of a session that already went through turns 1..m
RECURSIVE OldHistory(_)
OldHistory(m) ==
    IF m = 0 THEN <<>>
    ELSE <<AIMessage(OldText("r", m), {}), HumanMessage(OldText("p", m))>> \o OldHistory(m - 1)

lpush(list, v) == <<v>> \o list
llen(list) == Len(list)
\* RPOP key count: removes up to count entries from the tail
rpop(list, count) ==
    IF count >= Len(list) THEN <<>> ELSE SubSeq(list, 1, Len(list) - count)

(* --------------------------- semantic cache ---------------------------- *)
\* The cache is a function from stored prompt to entry.
Topic(p) == IF p \in {<<"q1">>, <<"q1b">>} THEN "A" ELSE "B"

Entry(resp, hasmeta, meta, pop) ==
    [response |-> resp, hasmeta |-> hasmeta, metadata |-> meta, popularity |-> pop]

RECURSIVE SetToSeq(_)
SetToSeq(S) ==
    IF S = {} THEN <<>>
    ELSE LET x == CHOOSE y \in S : TRUE IN <<x>> \o SetToSeq(S \ {x})

\* llmcache.check(prompt, return_fields=["response", "metadata"]): the entries
\* close enough to the prompt, nearest first
llmcache_check(c, p) ==
    LET exact == IF p \in DOMAIN c THEN <<p>> ELSE <<>>
        near  == SetToSeq({k \in DOMAIN c : k # p /\ Topic(k) = Topic(p)})
        keys  == exact \o near
    IN  [i \in 1..Len(keys) |->
            [id |-> keys[i], response |-> c[keys[i]].response,
             hasmeta |-> c[keys[i]].hasmeta, metadata |-> c[keys[i]].metadata]]

\* llmcache.store(prompt, response, metadata): the entry is keyed by the prompt,
\* storing an existing prompt rewrites its response and metadata
llmcache_store(c, p, resp, meta) ==
    [k \in (DOMAIN c) \cup {p} |->
        IF k = p
        THEN Entry(resp, TRUE, meta, IF p \in DOMAIN c THEN c[p].popularity ELSE 0)
        ELSE c[k]]

\* mutant of rate_cache_item: the score of the entry is left as it is
rate_cache_item_unchanged(c, id) == c

\* Core.rate_cache_item(id): "increase a score" of the entry
rate_cache_item(c, id) ==
    [k \in DOMAIN c |->
        IF k = id THEN [c[k] EXCEPT !.popularity = c[k].popularity + 1] ELSE c[k]]

EmptyCache == [k \in {} |-> Entry(NoText, FALSE, {}, 0)]
\* an entry another client stored for "q1", with or without metadata
CacheWithMetadata == [k \in {<<"q1">>} |-> Entry(<<"a", "b">>, TRUE, {"k0"}, 0)]
CacheWithoutMetadata == [k \in {<<"q1">>} |-> Entry(<<"b">>, FALSE, {}, 0)]

(* ------------------------------ state ---------------------------------- *)
VARIABLES
    MINIPILOT_CACHE_ENABLED,   \* configuration, fixed for the process
    MINIPILOT_HISTORY_LENGTH,  \* configuration, fixed for the process
    queue,      \* self.queue
    history,    \* the Redis list minipilot:history:<session_id>
    cache,      \* current_app.llmcache
    th,         \* the producer threads started by ask(), by thread slot
    nasks,      \* how many times ask() was called
    budget,     \* what the environment still does: the calls of ask(),
                \* streamer() and reset_history() by the caller and the
                \* fragments streamed by the LLM
    gen,        \* the generators returned by streamer(), by call
    puts        \* history variable: every item put on the queue so far, with
                \* the number of the question whose thread put it

\* the ingestion worker
VARIABLES
    now,        \* the clock datetime.now() reads, in ticks
    alias,      \* whether the alias minipilot_rag_alias is set in Redis
    redis_docs, \* the documents written to Redis indexes, each with its index
                \* name and (history variable) the run that wrote it
    logs,       \* what the runs have logged
    runs        \* the runs of csv_loader_task, by slot

vars == <<MINIPILOT_CACHE_ENABLED, MINIPILOT_HISTORY_LENGTH, queue, history,
          cache, th, nasks, budget, gen, puts,
          now, alias, redis_docs, logs, runs>>

chain == <<MINIPILOT_CACHE_ENABLED, MINIPILOT_HISTORY_LENGTH, queue, history,
           cache, th, nasks, budget, gen, puts>>
ingest == <<now, alias, redis_docs, logs, runs>>

config == <<MINIPILOT_CACHE_ENABLED, MINIPILOT_HISTORY_LENGTH>>
caller == <<nasks, budget>>

NoHit == [id |-> NoText, response |-> NoText, hasmeta |-> FALSE, metadata |-> {}]

\* a thread slot: the locals of __ask_question, plus n (the number of the
\* question), h0 and cache0 (the history and the cache when it was asked),
\* sent (what the thread has put on the queue) and alone (no other thread has
\* run and reset_history() has not been called since the thread started),
\* which are history variables
IdleThread ==
    [pc |-> "idle", n |-> 0, q |-> NoText, path |-> "none", cached |-> NoHit,
     history_length |-> 0, generated_question |-> NoText, source_documents |-> <<>>,
     answer |-> NoText, ntokens |-> 0, h0 |-> <<>>, cache0 |-> EmptyCache, sent |-> <<>>,
     alone |-> TRUE]

\* a generator: where it is (pc), its accumulator (answer), plus the history
\* variables out (what it has yielded), got (the items it has pulled, as they
\* are recorded in puts), sn (how many questions had been asked when
\* streamer() was called), first (how many items had been pulled from the
\* queue by then) and sole (no other generator has pulled from the queue while
\* this one was running)
IdleGen ==
    [pc |-> "idle", answer |-> NoText, out |-> <<>>, got |-> <<>>, sn |-> 0,
     first |-> 0, sole |-> TRUE]

Budget(a, s, r, f, e) ==
    [ask |-> a, streamer |-> s, reset_history |-> r, token |-> f, events |-> e]
\* the environment may still do this, and doing it is counted
Allowed(what) == budget[what] > 0 /\ budget.events > 0
Spend(what) == budget' = [budget EXCEPT ![what] = @ - 1, !.events = @ - 1]

Runs == 1..MaxRuns

\* a run slot: the locals of csv_loader_task, plus trail (the steps the run
\* has taken), a history variable
IdleRun ==
    [pc |-> "idle", filename |-> <<>>, index_name |-> <<>>,
     embedding_model |-> "unbound", row |-> 0, splits |-> <<>>, trail |-> <<>>]

\* no run of the worker has started
IngestIdle ==
    /\ now = 0
    /\ redis_docs = <<>>
    /\ logs = <<>>
    /\ runs = [r \in Runs |-> IdleRun]

\* a new chain instance: nothing asked, nothing queued
ChainIdle ==
    /\ queue = <<>>
    /\ th = [t \in Threads |-> IdleThread]
    /\ nasks = 0
    /\ gen = [g \in Gens |-> IdleGen]
    /\ puts = <<>>

\* the configurations and the stores a new chain instance may find
SessionConfiguration ==
    [enabled |-> TRUE, length |-> 1, turns |-> 1, cache |-> CacheWithMetadata]
Configurations ==
    { SessionConfiguration,
      [enabled |-> TRUE,  length |-> 2, turns |-> 0, cache |-> EmptyCache],
      [enabled |-> TRUE,  length |-> 1, turns |-> 2, cache |-> CacheWithoutMetadata],
      [enabled |-> FALSE, length |-> 1, turns |-> 0, cache |-> EmptyCache],
      [enabled |-> FALSE, length |-> 2, turns |-> 2, cache |-> EmptyCache] }

Configured(c) ==
    /\ MINIPILOT_CACHE_ENABLED = c.enabled
    /\ MINIPILOT_HISTORY_LENGTH = c.length
    /\ history = OldHistory(c.turns)
    /\ cache = c.cache

Init ==
    /\ IngestIdle
    /\ alias = TRUE     \* lines 45-50 open the index behind the alias
    /\ \E c \in Configurations : Configured(c)
    /\ ChainIdle
    /\ budget = Budget(MaxAsks, MaxStreams, MaxResets, MaxTokens, MaxEvents)

Running(r) == r.pc \notin {"idle", "done", "dead"}

\* thread t moves to record r
StepOf(t, r) == th' = [th EXCEPT ![t] = r]

\* queue.put of each of items by thread t
Put(t, items) ==
    /\ queue' = queue \o items
    /\ puts' = puts \o [i \in 1..Len(items) |-> [v |-> items[i], n |-> th[t].n]]

Sent(t, items) == th[t].sent \o items

(* ------------------------------ ask() ---------------------------------- *)
\* lines 61-63: a thread is started for the question, whatever the threads of
\* earlier questions and the generators are doing.  The thread takes the first
\* slot that holds no running thread.
ask(q) ==
    /\ Allowed("ask")
    /\ Spend("ask")
    /\ \E u \in Threads : ~Running(th[u])
    /\ nasks' = nasks + 1
    /\ LET t == CHOOSE u \in Threads :
                    ~Running(th[u]) /\ \A w \in Threads : ~Running(th[w]) => u <= w
       IN  th' = [u \in Threads |->
                    IF u = t
                    THEN [IdleThread EXCEPT
                            !.pc = "check", !.n = nasks + 1, !.q = q,
                            !.h0 = history, !.cache0 = cache,
                            !.alone = \A w \in Threads : ~Running(th[w])]
                    ELSE [th[u] EXCEPT !.alone = FALSE]]
    /\ UNCHANGED <<config, ingest, queue, history, cache, gen, puts>>

\* lines 76-81: the caller clears the history of the session
reset_history ==
    /\ Allowed("reset_history")
    /\ Spend("reset_history")
    /\ history' = <<>>
    /\ th' = [u \in Threads |-> [th[u] EXCEPT !.alone = FALSE]]
    /\ UNCHANGED <<config, ingest, queue, cache, nasks, gen, puts>>

(* ------------------- __ask_question: cache-hit path -------------------- *)
\* lines 92-94: the cache check decides between the short-circuit and the full path
check_cache(t) ==
    /\ th[t].pc = "check"
    /\ LET cached == IF MINIPILOT_CACHE_ENABLED
                     THEN llmcache_check(cache, th[t].q) ELSE <<>>
       IN  IF MINIPILOT_CACHE_ENABLED /\ Len(cached) > 0
           THEN StepOf(t, [th[t] EXCEPT !.pc = "hit_put", !.path = "hit",
                                        !.cached = cached[1]])
           ELSE StepOf(t, [th[t] EXCEPT !.pc = "llen", !.path = "full"])
    /\ UNCHANGED <<config, ingest, queue, history, cache, gen, caller, puts>>

\* line 95
hit_put_response(t) ==
    /\ th[t].pc = "hit_put"
    /\ Put(t, <<th[t].cached.response>>)
    /\ StepOf(t, [th[t] EXCEPT !.pc = "hit_stop",
                              !.sent = Sent(t, <<th[t].cached.response>>)])
    /\ UNCHANGED <<config, ingest, history, cache, gen, caller>>

\* line 96
hit_put_stop(t) ==
    /\ th[t].pc = "hit_stop"
    /\ Put(t, <<STOP_ITEM>>)
    /\ StepOf(t, [th[t] EXCEPT !.pc = "rate", !.sent = Sent(t, <<STOP_ITEM>>)])
    /\ UNCHANGED <<config, ingest, history, cache, gen, caller>>

\* line 99
hit_rate(t) ==
    /\ th[t].pc = "rate"
    /\ cache' = rate_cache_item(cache, th[t].cached.id)
    /\ StepOf(t, [th[t] EXCEPT !.pc = "hit_user"])
    /\ UNCHANGED <<config, ingest, queue, history, gen, caller, puts>>

\* mutant of hit_add_user_message: the question is not saved in the history
hit_skip_user_message(t) ==
    /\ th[t].pc = "hit_user"
    /\ StepOf(t, [th[t] EXCEPT !.pc = "hit_ai"])
    /\ UNCHANGED <<config, ingest, queue, history, cache, gen, caller, puts>>

\* line 105
hit_add_user_message(t) ==
    /\ th[t].pc = "hit_user"
    /\ history' = lpush(history, HumanMessage(th[t].q))
    /\ StepOf(t, [th[t] EXCEPT !.pc = "hit_ai"])
    /\ UNCHANGED <<config, ingest, queue, cache, gen, caller, puts>>

\* lines 102-104, 106-107
hit_add_ai_message(t) ==
    /\ th[t].pc = "hit_ai"
    /\ LET metadata == IF th[t].cached.hasmeta THEN th[t].cached.metadata ELSE {}
       IN  history' = lpush(history, AIMessage(th[t].cached.response, metadata))
    /\ StepOf(t, [th[t] EXCEPT !.pc = "done"])
    /\ UNCHANGED <<config, ingest, queue, cache, gen, caller, puts>>

(* --------------------- __ask_question: full path ----------------------- *)
\* line 120
read_history_length(t) ==
    /\ th[t].pc = "llen"
    /\ LET n == llen(history)
       IN  StepOf(t, [th[t] EXCEPT !.history_length = n,
                         !.pc = IF n > MINIPILOT_HISTORY_LENGTH THEN "rpop" ELSE "invoke"])
    /\ UNCHANGED <<config, ingest, queue, history, cache, gen, caller, puts>>

\* lines 121-122
trim_history(t) ==
    /\ th[t].pc = "rpop"
    /\ history' = rpop(history, th[t].history_length - MINIPILOT_HISTORY_LENGTH)
    /\ StepOf(t, [th[t] EXCEPT !.pc = "invoke"])
    /\ UNCHANGED <<config, ingest, queue, cache, gen, caller, puts>>

\* line 159 raising openai.OpenAIError without a callback of the streaming
\* LLM (condensing LLM, embedding of the query): caught at line 192
invoke_raises_openai_error(t) ==
    /\ th[t].pc = "invoke"
    /\ StepOf(t, [th[t] EXCEPT !.pc = "notify", !.path = "openai_error"])
    /\ UNCHANGED <<config, ingest, queue, history, cache, gen, caller, puts>>

\* line 159 raising anything that is no openai.OpenAIError without a callback
\* of the streaming LLM (the retriever's Redis search, a connection lost while
\* the answer is streamed): line 192 does not catch it and the thread ends
invoke_raises_other(t) ==
    /\ th[t].pc = "invoke"
    /\ StepOf(t, [th[t] EXCEPT !.pc = "dead", !.path = "uncaught"])
    /\ UNCHANGED <<config, ingest, queue, history, cache, gen, caller, puts>>

\* StreamingStdOutCallbackHandlerYield.on_llm_new_token, called by the
\* streaming LLM of line 159 for each fragment
on_llm_new_token(t) ==
    /\ th[t].pc = "invoke"
    /\ Allowed("token")
    /\ Spend("token")
    /\ LET token == Token(th[t].ntokens + 1)
       IN  /\ Put(t, <<token>>)
           /\ StepOf(t, [th[t] EXCEPT !.ntokens = @ + 1, !.answer = @ \o token,
                                     !.sent = Sent(t, <<token>>)])
    /\ UNCHANGED <<config, ingest, history, cache, gen, nasks>>

\* StreamingStdOutCallbackHandlerYield.on_llm_end; line 159 then returns the
\* result, whose source documents are whatever the retriever found.  The
\* standalone question of the result is drawn where it is read, at line 188.
on_llm_end(t) ==
    /\ th[t].pc = "invoke"
    /\ Put(t, <<STOP_ITEM>>)
    /\ \E docs \in SourceDocuments :
          StepOf(t, [th[t] EXCEPT !.pc = "references", !.source_documents = docs,
                                  !.sent = Sent(t, <<STOP_ITEM>>)])
    /\ UNCHANGED <<config, ingest, history, cache, gen, caller>>

\* StreamingStdOutCallbackHandlerYield.on_llm_error: the streaming LLM failed
\* and line 159 re-raises its exception, which line 192 catches when it is an
\* openai.OpenAIError; any other exception ends the thread
on_llm_error(t) ==
    /\ th[t].pc = "invoke"
    /\ Put(t, <<STOP_ITEM>>)
    /\ \E caught \in BOOLEAN :
          StepOf(t, [th[t] EXCEPT !.pc = IF caught THEN "notify" ELSE "dead",
                                  !.path = IF caught THEN "openai_error" ELSE "uncaught",
                                  !.sent = Sent(t, <<STOP_ITEM>>)])
    /\ UNCHANGED <<config, ingest, history, cache, gen, caller>>

\* lines 163-168 on one document: doc.metadata['names'] raises KeyError when
\* the field is missing, and .strip() raises AttributeError on None
RaisesOn(doc) == "names" \notin DOMAIN doc \/ doc.names = None
\* line 162: doc.metadata['id'].split('idx:')[-1]
ReferenceKey(doc) == doc.id[2]
\* lines 160-169: one reference per distinct key
References(docs) == {ReferenceKey(docs[i]) : i \in 1..Len(docs)}

\* lines 160-169: the references are collected from the source documents; a
\* document without the movie fields raises an exception that line 192 does
\* not catch, and the thread ends
collect_references(t) ==
    /\ th[t].pc = "references"
    /\ IF \E i \in 1..Len(th[t].source_documents) : RaisesOn(th[t].source_documents[i])
       THEN StepOf(t, [th[t] EXCEPT !.pc = "dead", !.path = "uncaught",
                                    !.source_documents = <<>>])
       ELSE StepOf(t, [th[t] EXCEPT !.pc = "add_user"])
    /\ UNCHANGED <<config, ingest, queue, history, cache, gen, caller, puts>>

\* line 171
add_user_message(t) ==
    /\ th[t].pc = "add_user"
    /\ history' = lpush(history, HumanMessage(th[t].q))
    /\ StepOf(t, [th[t] EXCEPT !.pc = "add_ai"])
    /\ UNCHANGED <<config, ingest, queue, cache, gen, caller, puts>>

\* line 172
add_ai_message(t) ==
    /\ th[t].pc = "add_ai"
    /\ history' = lpush(history, AIMessage(th[t].answer, References(th[t].source_documents)))
    /\ StepOf(t, [th[t] EXCEPT !.pc = "store"])
    /\ UNCHANGED <<config, ingest, queue, cache, gen, caller, puts>>

\* mutant of update_cache: the answer is stored whether or not references exist
update_cache_unguarded(t) ==
    /\ th[t].pc = "store"
    /\ IF MINIPILOT_CACHE_ENABLED
       THEN \E gq \in GeneratedQuestions :
               /\ cache' = llmcache_store(cache, gq, th[t].answer,
                                          References(th[t].source_documents))
               /\ StepOf(t, [th[t] EXCEPT !.pc = "done", !.generated_question = gq])
       ELSE /\ cache' = cache
            /\ StepOf(t, [th[t] EXCEPT !.pc = "done"])
    /\ UNCHANGED <<config, ingest, queue, history, gen, caller, puts>>

\* lines 187-190, 197: the entry is stored under result["generated_question"],
\* the standalone question the condensing LLM returned
update_cache(t) ==
    /\ th[t].pc = "store"
    /\ LET references == References(th[t].source_documents)
       IN  IF references # {} /\ MINIPILOT_CACHE_ENABLED
           THEN \E gq \in GeneratedQuestions :
                   /\ cache' = llmcache_store(cache, gq, th[t].answer, references)
                   /\ StepOf(t, [th[t] EXCEPT !.pc = "done", !.generated_question = gq])
           ELSE /\ cache' = cache
                /\ StepOf(t, [th[t] EXCEPT !.pc = "done"])
    /\ UNCHANGED <<config, ingest, queue, history, gen, caller, puts>>

\* line 193: StreamingStdOutCallbackHandlerYield.notify delivers the message and
\* ends the stream
notify(t) ==
    /\ th[t].pc = "notify"
    /\ Put(t, <<TooLongNotice, STOP_ITEM>>)
    /\ StepOf(t, [th[t] EXCEPT !.pc = "clear",
                              !.sent = Sent(t, <<TooLongNotice, STOP_ITEM>>)])
    /\ UNCHANGED <<config, ingest, history, cache, gen, caller>>

\* mutant of clear_history: the handler returns without clearing the history
clear_history_skipped(t) ==
    /\ th[t].pc = "clear"
    /\ StepOf(t, [th[t] EXCEPT !.pc = "done"])
    /\ UNCHANGED <<config, ingest, queue, history, cache, gen, caller, puts>>

\* lines 195-196
clear_history(t) ==
    /\ th[t].pc = "clear"
    /\ history' = <<>>
    /\ StepOf(t, [th[t] EXCEPT !.pc = "done"])
    /\ UNCHANGED <<config, ingest, queue, cache, gen, caller, puts>>

(* ----------------------------- streamer() ------------------------------ *)
\* self.log and the timings it is given are left out: nothing reads them back.
\* Its argument self.question is kept: line 62 is the only place that sets it.

\* generator g moves to record r; a pull by g is seen by the other running
\* generators
GenStep(g, r, pulls) ==
    gen' = [h \in Gens |->
               IF h = g THEN r
               ELSE IF pulls /\ gen[h].pc = "run" THEN [gen[h] EXCEPT !.sole = FALSE]
               ELSE gen[h]]

\* the item at the head of the queue, as recorded in puts
HeadPut == puts[Len(puts) - Len(queue) + 1]

\* lines 200-203: the caller calls streamer() and starts to iterate the
\* generator, before or after it asks a question; other generators of the
\* instance may still be running.  Line 214 also stops on None, which no
\* producer puts.
streamer_start ==
    /\ Allowed("streamer")
    /\ Spend("streamer")
    /\ \E g \in Gens :
          /\ gen[g].pc = "idle"
          /\ \A h \in Gens : h < g => gen[h].pc # "idle"
          /\ GenStep(g, [IdleGen EXCEPT !.pc = "run", !.sn = nasks,
                                        !.first = Len(puts) - Len(queue)], FALSE)
    /\ UNCHANGED <<config, ingest, queue, history, cache, th, nasks, puts>>

\* mutant of streamer_get: the value is yielded before it is compared with the
\* sentinel
streamer_get_yields_first(g) ==
    /\ gen[g].pc = "run"
    /\ queue # <<>>
    /\ LET result == Head(queue)
       IN  /\ queue' = Tail(queue)
           /\ GenStep(g, [gen[g] EXCEPT
                            !.got = Append(@, HeadPut),
                            !.answer = @ \o result,
                            !.out = Append(@, result),
                            !.pc = IF result = STOP_ITEM THEN "stopped" ELSE @], TRUE)
    /\ UNCHANGED <<config, ingest, history, cache, th, caller, puts>>

\* mutant of streamer_get: a sentinel that ends an empty answer is reported like
\* a timeout
streamer_get_empty_as_timeout(g) ==
    /\ gen[g].pc = "run"
    /\ queue # <<>>
    /\ LET result == Head(queue)
       IN  /\ queue' = Tail(queue)
           /\ IF result = STOP_ITEM
              THEN IF gen[g].answer = NoText
                   THEN GenStep(g, [gen[g] EXCEPT
                                      !.got = Append(@, HeadPut),
                                      !.pc = "timedout",
                                      !.answer = OverloadMessage,
                                      !.out = Append(@, OverloadMessage)], TRUE)
                   ELSE GenStep(g, [gen[g] EXCEPT !.got = Append(@, HeadPut),
                                                  !.pc = "stopped"], TRUE)
              ELSE GenStep(g, [gen[g] EXCEPT !.got = Append(@, HeadPut),
                                             !.answer = @ \o result,
                                             !.out = Append(@, result)], TRUE)
    /\ UNCHANGED <<config, ingest, history, cache, th, caller, puts>>

\* lines 206, 214-218: a value arrived within the timeout
streamer_get(g) ==
    /\ gen[g].pc = "run"
    /\ queue # <<>>
    /\ LET result == Head(queue)
       IN  /\ queue' = Tail(queue)
           /\ IF result = STOP_ITEM
              THEN GenStep(g, [gen[g] EXCEPT !.got = Append(@, HeadPut),
                                             !.pc = "stopped"], TRUE)
              ELSE GenStep(g, [gen[g] EXCEPT !.got = Append(@, HeadPut),
                                             !.answer = @ \o result,
                                             !.out = Append(@, result)], TRUE)
    /\ UNCHANGED <<config, ingest, history, cache, th, caller, puts>>

\* mutant of streamer_timeout: the empty queue is polled again
streamer_timeout_polls_again(g) ==
    /\ gen[g].pc = "run"
    /\ queue = <<>>
    /\ UNCHANGED vars

\* lines 209-213: queue.Empty after MINIPILOT_LLM_TIMEOUT seconds.  Line 211
\* reads self.question before the message is yielded: on an instance that was
\* never asked a question the attribute does not exist, AttributeError leaves
\* the generator and nothing is yielded.
streamer_timeout(g) ==
    /\ gen[g].pc = "run"
    /\ queue = <<>>
    /\ IF nasks = 0
       THEN GenStep(g, [gen[g] EXCEPT !.pc = "raised",
                                      !.answer = OverloadMessage], FALSE)
       ELSE GenStep(g, [gen[g] EXCEPT !.pc = "timedout",
                                      !.answer = OverloadMessage,
                                      !.out = Append(@, OverloadMessage)], FALSE)
    /\ UNCHANGED <<config, ingest, queue, history, cache, th, caller, puts>>

\* the caller stops iterating the generator and drops it
streamer_abandon(g) ==
    /\ gen[g].pc = "run"
    /\ GenStep(g, [gen[g] EXCEPT !.pc = "abandoned"], FALSE)
    /\ UNCHANGED <<config, ingest, queue, history, cache, th, caller, puts>>

(* --------------------------- specification ----------------------------- *)
Producer(t) ==
    \/ check_cache(t)
    \/ hit_put_response(t)
    \/ hit_put_stop(t)
    \/ hit_rate(t)
    \/ hit_add_user_message(t)
    \/ hit_add_ai_message(t)
    \/ read_history_length(t)
    \/ trim_history(t)
    \/ invoke_raises_openai_error(t)
    \/ invoke_raises_other(t)
    \/ on_llm_new_token(t)
    \/ on_llm_end(t)
    \/ on_llm_error(t)
    \/ collect_references(t)
    \/ add_user_message(t)
    \/ add_ai_message(t)
    \/ update_cache(t)
    \/ notify(t)
    \/ clear_history(t)

Consumer(g) ==
    \/ streamer_get(g)
    \/ streamer_timeout(g)
    \/ streamer_abandon(g)

Next ==
    \/ \E q \in Questions : ask(q)
    \/ reset_history
    \/ \E t \in Threads : Producer(t)
    \/ streamer_start
    \/ \E g \in Gens : Consumer(g)

Spec == Init /\ [][Next]_vars

\* the caller keeps iterating a generator until it ends or gives it up: a step
\* of the generator that can be taken is taken.  What reaches the queue
\* depends neither on the stored history nor on MINIPILOT_HISTORY_LENGTH,
\* which are fixed here.
InitFair ==
    /\ Init
    /\ Configured(SessionConfiguration)

FairSpec ==
    /\ InitFair
    /\ [][Next]_vars
    /\ \A g \in Gens : WF_vars(streamer_get(g) \/ streamer_timeout(g))

\* a session on a chain instance that holds one turn, the cache holding an
\* entry for "q1": the environment does one thing more than in Init
SessionInit ==
    /\ IngestIdle
    /\ alias = TRUE
    /\ Configured(SessionConfiguration)
    /\ ChainIdle
    /\ budget = Budget(MaxAsks, MaxStreams, MaxResets, MaxTokens, MaxSessionEvents)

SessionSpec == SessionInit /\ [][Next]_vars

(* ----------------- the ingestion worker: csv_loader_task ---------------- *)
\* the files the worker is run on, each <<name, extension>>, and how many rows
\* csv.DictReader finds in them
Filenames == {<<"movies", ".csv">>, <<"books", ".csv">>, <<"empty", ".csv">>}
NumRows(filename) ==
    IF filename[1] = "movies" THEN 2 ELSE IF filename[1] = "books" THEN 1 ELSE 0
\* what doc_splitter.split_text may return for a row: nothing for an empty
\* row, one chunk, or more for a row longer than chunk_size
Splits == {<<>>, <<"c1">>, <<"c1", "c2">>}

get_filename_without_extension(filename) == filename[1]

\* datetime.now().strftime('%Y%m%d_%H%M%S'): the clock reading cut to the second
TicksPerSecond == 2
strftime(t) == t \div TicksPerSecond

\* line 18
IndexName(filename, t) ==
    <<"minipilot_rag_", get_filename_without_extension(filename), "_", strftime(t), "_idx">>

RunStep(r, rec) == runs' = [runs EXCEPT ![r] = rec]

\* lines 14-18: a run starts and names its index
csv_loader_task(r, filename) ==
    /\ runs[r].pc = "idle"
    /\ \A u \in Runs : u < r => runs[u].pc # "idle"
    /\ RunStep(r, [runs[r] EXCEPT !.pc = "embed", !.filename = filename,
                                  !.index_name = IndexName(filename, now),
                                  !.trail = <<"index_name">>])
    /\ UNCHANGED <<chain, now, alias, redis_docs, logs>>

\* lines 37-40: OpenAIEmbeddings(...) returns, or raises (no OPENAI_API_KEY in
\* the environment) and the exception is logged
create_embedding_model(r) ==
    /\ runs[r].pc = "embed"
    /\ \/ /\ RunStep(r, [runs[r] EXCEPT !.pc = "alias", !.embedding_model = "bound",
                                         !.trail = Append(@, "embedding_model")])
          /\ UNCHANGED logs
       \/ /\ RunStep(r, [runs[r] EXCEPT !.pc = "alias",
                                         !.trail = Append(@, "embedding_failed")])
          /\ logs' = Append(logs, [run |-> r, level |-> "error"])
    /\ UNCHANGED <<chain, now, alias, redis_docs>>

\* lines 43-46: ft('minipilot_rag_alias').info() raises ResponseError when the
\* alias is not set, which is logged as a warning
check_alias(r) ==
    /\ runs[r].pc = "alias"
    /\ RunStep(r, [runs[r] EXCEPT !.pc = "rows", !.row = 1,
                                  !.trail = Append(@, "alias_check")])
    /\ logs' = IF alias THEN logs ELSE Append(logs, [run |-> r, level |-> "warning"])
    /\ UNCHANGED <<chain, now, alias, redis_docs>>

\* lines 62-66, 82: the next row is read and split; the loop ends after the
\* last row
read_row(r) ==
    /\ runs[r].pc = "rows"
    /\ IF runs[r].row > NumRows(runs[r].filename)
       THEN RunStep(r, [runs[r] EXCEPT !.pc = "done"])
       ELSE \E splits \in Splits :
               RunStep(r, [runs[r] EXCEPT
                   !.trail = Append(@, "read_row"),
                   !.splits = splits,
                   !.pc = IF Len(splits) > 0 THEN "ingest" ELSE "rows",
                   !.row = IF Len(splits) > 0 THEN @ ELSE @ + 1])
    /\ UNCHANGED <<chain, now, alias, redis_docs, logs>>

\* lines 84-90: the chunks of the row are written to the index of the run,
\* which Redis.from_texts creates when it does not exist.  Evaluating the
\* argument embedding_model raises UnboundLocalError when line 38 had failed.
from_texts(r) ==
    /\ runs[r].pc = "ingest"
    /\ IF runs[r].embedding_model = "unbound"
       THEN /\ RunStep(r, [runs[r] EXCEPT !.pc = "dead"])
            /\ UNCHANGED redis_docs
       ELSE /\ redis_docs' = redis_docs \o
                   [i \in 1..Len(runs[r].splits) |->
                       [index_name |-> runs[r].index_name,
                        text |-> runs[r].splits[i], run |-> r]]
            /\ RunStep(r, [runs[r] EXCEPT !.pc = "rows", !.row = @ + 1,
                                          !.trail = Append(@, "from_texts")])
    /\ UNCHANGED <<chain, now, alias, logs>>

\* time passes
clock_tick ==
    /\ now < MaxClock
    /\ now' = now + 1
    /\ UNCHANGED <<chain, alias, redis_docs, logs, runs>>

\* the worker on its own: no question is asked meanwhile
WorkerInit ==
    /\ IngestIdle
    /\ alias \in BOOLEAN
    /\ MINIPILOT_CACHE_ENABLED = FALSE
    /\ MINIPILOT_HISTORY_LENGTH = 1
    /\ history = <<>>
    /\ cache = EmptyCache
    /\ ChainIdle
    /\ budget = Budget(0, 0, 0, 0, 0)

WorkerNext ==
    \/ \E r \in Runs, filename \in Filenames : csv_loader_task(r, filename)
    \/ \E r \in Runs : create_embedding_model(r)
    \/ \E r \in Runs : check_alias(r)
    \/ \E r \in Runs : read_row(r)
    \/ \E r \in Runs : from_texts(r)
    \/ clock_tick

WorkerSpec == WorkerInit /\ [][WorkerNext]_vars

(* ------------------------------ helpers -------------------------------- *)
Values(s) == [i \in 1..Len(s) |-> s[i].v]
HasStop(s) == \E i \in 1..Len(s) : s[i] = STOP_ITEM
\* the fragments before the first sentinel of s (all of s when it has none)
BeforeStop(s) ==
    IF HasStop(s)
    THEN SubSeq(s, 1, (CHOOSE i \in 1..Len(s) :
                          s[i] = STOP_ITEM /\ \A j \in 1..(i - 1) : s[j] # STOP_ITEM) - 1)
    ELSE s
IsPrefix(a, b) == Len(a) <= Len(b) /\ a = SubSeq(b, 1, Len(a))
Count(s, v) == Cardinality({i \in 1..Len(s) : s[i] = v})
Min(a, b) == IF a <= b THEN a ELSE b

\* the top hit of the cache check made for the question of thread t
TopHit(t) == llmcache_check(th[t].cache0, th[t].q)[1]
\* what was on the queue when generator g was started and what was put since
Arrived(g) == SubSeq(puts, gen[g].first + 1, Len(puts))
\* generator g is the only one to pull, and it was handed everything thread t
\* has put, and nothing else
OwnStream(t, g) ==
    /\ gen[g].sole
    /\ Len(Arrived(g)) = Len(th[t].sent)
    /\ \A i \in 1..Len(Arrived(g)) : Arrived(g)[i].n = th[t].n
\* thread t has been the only writer of the session since it was started
Alone(t) == th[t].alone
Finished(t) == th[t].pc \in {"done", "dead"}
\* the generator has returned, raised or was dropped by its caller
Ended(g) == gen[g].pc \in {"stopped", "timedout", "raised", "abandoned"}
\* the number of the question a streamer() call is made for: the one asked
\* last before the call, or the first one when none was asked yet
QuestionOf(g) == IF gen[g].sn = 0 THEN 1 ELSE gen[g].sn
\* the list is made of whole turns, each a user message with its AI message
\* pushed right after it
WholeTurns(list) ==
    /\ Len(list) % 2 = 0
    /\ \A i \in 1..Len(list) :
          list[i].type = IF i % 2 = 1 THEN "ai" ELSE "human"

(* ------------------------------- claims -------------------------------- *)
\* C1: whatever sequence of fragments followed by the sentinel reaches the
\* queue, a generator that is the only one to pull yields exactly the
\* fragments before the sentinel, in the order they were put, and stops
\* there; while it runs, what it has yielded is a prefix of them.  Any
\* generator yields what it pulls, in that order, up to the first sentinel.
C1_StreamerYieldsFragmentsInOrder ==
    \A g \in Gens :
        LET got == Values(gen[g].got)
            a   == Values(Arrived(g))
        IN  /\ gen[g].pc = "stopped" =>
                  /\ got = gen[g].out \o <<STOP_ITEM>>
                  /\ ~HasStop(gen[g].out)
            /\ gen[g].pc \in {"run", "abandoned", "raised"} =>
                  gen[g].out = got /\ ~HasStop(got)
            /\ gen[g].sole =>
                  /\ IsPrefix(gen[g].got, Arrived(g))
                  /\ gen[g].pc = "stopped" => HasStop(a) /\ gen[g].out = BeforeStop(a)
                  /\ gen[g].pc \in {"run", "abandoned", "raised"} =>
                        IsPrefix(gen[g].out, BeforeStop(a))

C1_Witness ==
    \E g \in Gens, t \in Threads :
        /\ gen[g].pc = "stopped"
        /\ gen[g].sole
        /\ Len(gen[g].out) = 2
        /\ th[t].path = "full"
        /\ th[t].sent = gen[g].out \o <<STOP_ITEM>>

\* C2: when the producer thread of a question has ended, it has put the
\* sentinel on the queue exactly once.
C2_SentinelExactlyOnce ==
    \A t \in Threads : Finished(t) => Count(th[t].sent, STOP_ITEM) = 1

\* C3: a running generator eventually ends (on the sentinel or on a timeout)
\* or is given up by its caller, whatever the producer threads do and whether
\* it was started before or after a question was asked.
C3_StreamerTerminates ==
    \A g \in Gens : (gen[g].pc = "run") ~> Ended(g)

C3_Witness ==
    \E g \in Gens, t \in Threads :
        /\ gen[g].pc = "timedout"
        /\ th[t].pc = "dead"
        /\ th[t].sent = <<>>

\* C4: after a pull from the queue has timed out a generator has yielded the
\* fragments it had pulled followed by the overload message, once, and it has
\* pulled no sentinel.  Without a timeout the overload message is not yielded.
C4_TimeoutYieldsOverloadOnce ==
    \A g \in Gens :
        /\ gen[g].pc \in {"timedout", "raised"} =>
              /\ gen[g].out = Values(gen[g].got) \o <<OverloadMessage>>
              /\ ~HasStop(Values(gen[g].got))
        /\ gen[g].pc \notin {"timedout", "raised"} =>
              Count(gen[g].out, OverloadMessage) = 0

\* C5: on a cache hit the thread puts the top hit's response and the sentinel
\* and nothing else, never reaches the LLM, and (no other thread running)
\* raises the popularity of that entry by one, leaving the cache otherwise as
\* it was; a generator that was handed what the thread has put, and nothing
\* else, and ends on the sentinel has yielded exactly the response.
C5_CacheHitStreamsResponse ==
    \A t \in Threads : th[t].path = "hit" =>
        LET hit == th[t].cached
            rated == th[t].pc \in {"hit_user", "hit_ai", "done"}
        IN  /\ MINIPILOT_CACHE_ENABLED
            /\ th[t].pc \in {"hit_put", "hit_stop", "rate", "hit_user", "hit_ai", "done"}
            /\ th[t].ntokens = 0
            /\ IsPrefix(th[t].sent, <<hit.response, STOP_ITEM>>)
            /\ th[t].pc \notin {"hit_put", "hit_stop"} =>
                  th[t].sent = <<hit.response, STOP_ITEM>>
            /\ Alone(t) =>
                  /\ hit = TopHit(t)
                  /\ cache = IF rated
                             THEN [th[t].cache0 EXCEPT ![hit.id].popularity = @ + 1]
                             ELSE th[t].cache0
            /\ \A g \in Gens : (gen[g].pc = "stopped" /\ OwnStream(t, g)) =>
                  gen[g].out = <<hit.response>> /\ gen[g].answer = hit.response

C5_Witness ==
    \E t \in Threads, g \in Gens :
        /\ th[t].path = "hit"
        /\ th[t].pc = "done"
        /\ gen[g].pc = "stopped"
        /\ OwnStream(t, g)
        /\ gen[g].answer = <<"a", "b">>
        /\ cache[th[t].cached.id].popularity = 1

\* C6: when the generation step has raised a provider error (no other thread
\* running), the stored history is empty and a generator that was handed what
\* the thread has put, and nothing else, and ends on the sentinel has
\* delivered the "conversation too long" notice.
C6_ProviderErrorNotice ==
    \A t \in Threads :
        (th[t].path = "openai_error" /\ th[t].pc = "done" /\ Alone(t)) =>
        /\ Len(history) = 0
        /\ \A g \in Gens : (gen[g].pc = "stopped" /\ OwnStream(t, g)) =>
              (gen[g].out # <<>> /\ gen[g].out[Len(gen[g].out)] = TooLongNotice)

\* C7: with more than HISTORY_LENGTH turns stored when the question
\* is asked, the store holds exactly the HISTORY_LENGTH most recent turns once
\* the question is answered on the full path (HISTORY_LENGTH read as turns or
\* as entries).
C7_RetainsHistoryLength ==
    \A t \in Threads :
        (th[t].pc = "done" /\ th[t].path = "full" /\ Alone(t)
            /\ Len(th[t].h0) > 2 * MINIPILOT_HISTORY_LENGTH) =>
        Len(history) \in {MINIPILOT_HISTORY_LENGTH, 2 * MINIPILOT_HISTORY_LENGTH}

\* C8: once a question that missed the cache has been answered with at least
\* one reference, caching being enabled, a cache check of the same question
\* hits.
C8_SameQuestionHitsAfterMiss ==
    \A t \in Threads :
        (th[t].pc = "done" /\ th[t].path = "full" /\ MINIPILOT_CACHE_ENABLED
            /\ Alone(t) /\ References(th[t].source_documents) # {}) =>
        Len(llmcache_check(cache, th[t].q)) > 0

\* C9: a question on the full path leaves the cache as it found it, unless
\* it ends with at least one reference (no other thread running).
C9_NoReferencesNoCacheWrite ==
    \A t \in Threads :
        (th[t].path \in {"full", "uncaught"} /\ Alone(t)
            /\ (th[t].pc # "done" \/ References(th[t].source_documents) = {})) =>
        cache = th[t].cache0

C9_Witness ==
    \E t \in Threads :
        /\ th[t].pc = "done"
        /\ Alone(t)
        /\ th[t].path = "full"
        /\ MINIPILOT_CACHE_ENABLED
        /\ th[t].source_documents = <<>>
        /\ th[t].answer # NoText
        /\ cache # EmptyCache

\* C10: a cache hit pushes the question as the user message and then the
\* cached response as the AI message, with the hit's metadata or none, on top
\* of the history it found, and nothing else (no other thread writing to the
\* session and no reset_history() meanwhile).
C10_CacheHitAppendsOneTurn ==
    \A t \in Threads : (th[t].path = "hit" /\ Alone(t)) =>
        LET hit  == TopHit(t)
            user == HumanMessage(th[t].q)
            ai   == AIMessage(hit.response, IF hit.hasmeta THEN hit.metadata ELSE {})
        IN  history = (IF th[t].pc = "done" THEN <<ai, user>>
                       ELSE IF th[t].pc = "hit_ai" THEN <<user>>
                       ELSE <<>>) \o th[t].h0

C10_Witness ==
    \E t \in Threads :
        /\ Alone(t)
        /\ th[t].path = "hit"
        /\ th[t].pc = "done"
        /\ ~th[t].cached.hasmeta
        /\ Len(history) >= 4
        /\ history[1] = AIMessage(<<"b">>, {})
        /\ history[2] = HumanMessage(th[t].q)

\* C11: a question answered (from the cache or by the LLM) in a session that
\* holds at most HISTORY_LENGTH entries plus one turn leaves at most
\* HISTORY_LENGTH entries plus the turn it appended.
C11_HistoryNeverExceedsBound ==
    \A t \in Threads :
        (th[t].pc = "done" /\ th[t].path \in {"hit", "full"} /\ Alone(t)
            /\ Len(th[t].h0) <= MINIPILOT_HISTORY_LENGTH + 2) =>
        Len(history) <= MINIPILOT_HISTORY_LENGTH + 2

\* C12: a turn that ends in a provider error writes nothing to the cache and
\* pushes nothing on the history, which holds the entries the trim kept until
\* the handler clears it (no other thread writing to the session and no
\* reset_history() meanwhile).
C12_ProviderErrorPersistsNothing ==
    \A t \in Threads : th[t].path = "openai_error" =>
        /\ th[t].pc \in {"notify", "clear", "done"}
        /\ Alone(t) =>
              /\ cache = th[t].cache0
              /\ history = IF th[t].pc = "done" THEN <<>>
                           ELSE SubSeq(th[t].h0, 1,
                                       Min(Len(th[t].h0), MINIPILOT_HISTORY_LENGTH))

C12_Witness ==
    \E t \in Threads :
        /\ th[t].path = "openai_error"
        /\ th[t].pc = "done"
        /\ Alone(t)
        /\ th[t].ntokens > 0
        /\ th[t].h0 # <<>>
        /\ MINIPILOT_CACHE_ENABLED
        /\ cache # EmptyCache

\* C13: when the first item a generator pulls is the sentinel, it has stopped
\* having yielded nothing, with an empty answer and no overload message.
C13_SentinelFirstIsEmptyAnswer ==
    \A g \in Gens :
        (gen[g].got # <<>> /\ gen[g].got[1].v = STOP_ITEM) =>
            /\ gen[g].pc = "stopped"
            /\ gen[g].out = <<>>
            /\ gen[g].answer = NoText

C13_Witness ==
    \E g \in Gens, t \in Threads :
        /\ gen[g].pc = "stopped"
        /\ gen[g].out = <<>>
        /\ th[t].path = "full"
        /\ th[t].pc = "done"
        /\ th[t].ntokens = 0
        /\ th[t].sent = <<STOP_ITEM>>
        /\ OwnStream(t, g)

\* C14: once a consumer has stopped draining the queue (abandoned or timed
\* out), a producer thread that still runs can always take its next step, and
\* a thread that has ended has put its sentinel.
C14_ProducerCompletesWithoutConsumer ==
    (\E g \in Gens : gen[g].pc \in {"abandoned", "timedout", "raised"}) =>
        \A t \in Threads :
            /\ Running(th[t]) => ENABLED Producer(t)
            /\ Finished(t) => HasStop(th[t].sent)

\* C17: every item a generator has pulled from the queue was put by the
\* producer thread of the question its streamer() call was made for: the one
\* asked last before it, or the first one when the call came first.
C17_StreamIsOfItsOwnQuestion ==
    \A g \in Gens : \A i \in 1..Len(gen[g].got) : gen[g].got[i].n = QuestionOf(g)

\* C18: when a generator has stopped on the sentinel of a question answered
\* from the cache or by the LLM, the two messages of that turn are on top of
\* the stored history.
C18_TurnStoredWhenStreamStops ==
    \A t \in Threads, g \in Gens :
        (gen[g].pc = "stopped" /\ th[t].n = QuestionOf(g) /\ OwnStream(t, g) /\ Alone(t)
            /\ th[t].path \in {"hit", "full"}) =>
        /\ Len(history) >= 2
        /\ history[2] = HumanMessage(th[t].q)
        /\ history[1].type = "ai"
        /\ history[1].content = IF th[t].path = "hit" THEN th[t].cached.response
                                ELSE th[t].answer

\* C19: when the thread of a question has returned, no other thread having
\* written to the session meanwhile, the stored history is a sequence of whole
\* turns.
C19_HistoryIsWholeTurns ==
    \A t \in Threads : (th[t].pc = "done" /\ Alone(t)) => WholeTurns(history)

\* C15: no two runs of csv_loader_task write to the same index: the documents
\* of an index were all written by one run.
C15_RunsNeverShareAnIndex ==
    \A i, j \in 1..Len(redis_docs) :
        redis_docs[i].index_name = redis_docs[j].index_name =>
            redis_docs[i].run = redis_docs[j].run

\* C16: when creating the embedding service has failed in a run, the failure
\* has been logged as an error and it is the last step the run has taken.
C16_EmbeddingFailureStopsTheRun ==
    \A r \in Runs : \A i \in 1..Len(runs[r].trail) :
        runs[r].trail[i] = "embedding_failed" =>
            /\ \E k \in 1..Len(logs) : logs[k] = [run |-> r, level |-> "error"]
            /\ i = Len(runs[r].trail)

====
